---- MODULE Spec2Model ----
(***************************************************************************)
(* Ambilight: screen-edge LED regions, their pixel-offset tables, the      *)
(* per-frame parallel colour reduction, the Adalight packet and the pacing *)
(* loop of src/src/main.rs.                                                *)
(*                                                                         *)
(* Arithmetic.  usize values are naturals (the bounded inputs are far from *)
(* 2^64).  The f32 expressions of create_led_regions are modelled by exact *)
(* rational arithmetic followed by f32::round (half away from zero) and    *)
(* the saturating `as usize` cast; on the inputs explored here the single- *)
(* precision evaluation gives the same integers.                           *)
(***************************************************************************)
EXTENDS Integers, Sequences, FiniteSets, TLC

VARIABLES
    config,               \* AmbilightConfig (the fields the pipeline reads)
    width, height,        \* capturer.width(), capturer.height()
    led_regions,          \* Vec<LedRegion>
    precomputed_indices,  \* Vec<Vec<usize>>
    pc,                   \* position of main's control thread
    frame_duration,       \* Duration, in ms
    now,                  \* the monotonic clock read by Instant::now(), in ms
    frame_start,          \* Instant of the current cycle's start (-1: not set)
    poll_result,          \* what capturer.frame() returned last
    polls,                \* not-ready results seen in the current cycle
    frame,                \* the captured BGRA buffer of this cycle
    done,                 \* regions whose parallel task has finished
    results,              \* the collect target: slot -> colour triple
    colors,               \* Vec<(u8, u8, u8)> of this cycle
    msg_buffer,           \* Vec<u8>, reused by every cycle
    attempts,             \* port.write_all calls made in the current cycle
    write_result,         \* what port.write_all returned last
    sleep_arg             \* argument of the latest thread::sleep (-1: none)

geom_vars == <<config, width, height, led_regions, precomputed_indices>>

loop_vars == <<frame_duration, now, frame_start, poll_result, polls, frame,
               done, results, colors, msg_buffer, attempts, write_result,
               sleep_arg>>

vars == <<geom_vars, pc, loop_vars>>

---------------------------------------------------------------------------
(* Bounds of the model *)

MaxDim == 3
MaxLed == 2

Percents == {0, 50, 100}

---------------------------------------------------------------------------
(* Integer helpers *)

Min(a, b) == IF a <= b THEN a ELSE b

\* usize::saturating_sub
SatSub(a, b) == IF a >= b THEN a - b ELSE 0

\* (n as f32 / d as f32).round() as usize for d > 0: round half away from
\* zero, negative values saturate to 0 in the cast.
RoundDiv(n, d) == IF n <= 0 THEN 0 ELSE (2 * n + d) \div (2 * d)

---------------------------------------------------------------------------
(* create_led_regions *)

PixelThickness(cfg, h) == (h * cfg.pixel_thickness) \div 100

TotalBottom(cfg) == cfg.bottom_left_led_count + cfg.bottom_right_led_count

OffsetPixels(cfg, w) == (w * cfg.offset) \div 100

EffectiveWidth(cfg, w) == SatSub(w, OffsetPixels(cfg, w))

LeftGroupWidth(cfg, w) ==
    RoundDiv(cfg.bottom_left_led_count * EffectiveWidth(cfg, w), TotalBottom(cfg))

RightGroupWidth(cfg, w) ==
    RoundDiv(cfg.bottom_right_led_count * EffectiveWidth(cfg, w), TotalBottom(cfg))

RightGroupStart(cfg, w) == LeftGroupWidth(cfg, w) + OffsetPixels(cfg, w)

\* 1) bottom-right group, left to right (i is the loop index plus one)
BottomRightRegions(cfg, w, h) ==
    LET n   == cfg.bottom_right_led_count
        rgw == RightGroupWidth(cfg, w)
        rgs == RightGroupStart(cfg, w)
        pt  == PixelThickness(cfg, h)
    IN  [i \in 1..n |->
            [x1 |-> Min(RoundDiv(rgs * n + (i - 1) * rgw, n), w),
             y1 |-> SatSub(h, pt),
             x2 |-> Min(RoundDiv(rgs * n + i * rgw, n), w),
             y2 |-> h]]

\* Variant: the right side walked top to bottom.
RightRegionsTopDown(cfg, w, h) ==
    LET n  == cfg.right_led_count
        pt == PixelThickness(cfg, h)
    IN  [i \in 1..n |->
            [x1 |-> SatSub(w, pt),
             y1 |-> Min(RoundDiv((i - 1) * h, n), h),
             x2 |-> w,
             y2 |-> Min(RoundDiv(i * h, n), h)]]

\* 2) right side, bottom to top
RightRegions(cfg, w, h) ==
    LET n  == cfg.right_led_count
        pt == PixelThickness(cfg, h)
    IN  [i \in 1..n |->
            [x1 |-> SatSub(w, pt),
             y1 |-> Min(RoundDiv(h * n - i * h, n), h),
             x2 |-> w,
             y2 |-> Min(RoundDiv(h * n - (i - 1) * h, n), h)]]

\* Variant: the top side walked left to right (rev_i replaced by i).
TopRegionsLeftToRight(cfg, w, h) ==
    LET n  == cfg.top_led_count
        pt == PixelThickness(cfg, h)
    IN  [i \in 1..n |->
            [x1 |-> Min(RoundDiv((i - 1) * w, n), w),
             y1 |-> 0,
             x2 |-> Min(RoundDiv(i * w, n), w),
             y2 |-> pt]]

\* 3) top side, right to left (rev_i = n - 1 - (i - 1))
TopRegions(cfg, w, h) ==
    LET n  == cfg.top_led_count
        pt == PixelThickness(cfg, h)
    IN  [i \in 1..n |->
            [x1 |-> Min(RoundDiv((n - i) * w, n), w),
             y1 |-> 0,
             x2 |-> Min(RoundDiv((n - i + 1) * w, n), w),
             y2 |-> pt]]

\* 4) left side, top to bottom
LeftRegions(cfg, w, h) ==
    LET n  == cfg.left_led_count
        pt == PixelThickness(cfg, h)
    IN  [i \in 1..n |->
            [x1 |-> 0,
             y1 |-> Min(RoundDiv((i - 1) * h, n), h),
             x2 |-> pt,
             y2 |-> Min(RoundDiv(i * h, n), h)]]

\* 5) bottom-left group, left to right
BottomLeftRegions(cfg, w, h) ==
    LET n   == cfg.bottom_left_led_count
        lgw == LeftGroupWidth(cfg, w)
        pt  == PixelThickness(cfg, h)
    IN  [i \in 1..n |->
            [x1 |-> Min(RoundDiv((i - 1) * lgw, n), w),
             y1 |-> SatSub(h, pt),
             x2 |-> Min(RoundDiv(i * lgw, n), w),
             y2 |-> h]]

\* Variant: the guard on the bottom counts is missing.
create_led_regions_unguarded(cfg, w, h) ==
    BottomRightRegions(cfg, w, h) \o RightRegions(cfg, w, h)
        \o TopRegions(cfg, w, h) \o LeftRegions(cfg, w, h)
        \o BottomLeftRegions(cfg, w, h)

create_led_regions(cfg, w, h) ==
    IF TotalBottom(cfg) = 0
    THEN <<>>
    ELSE BottomRightRegions(cfg, w, h) \o RightRegions(cfg, w, h)
            \o TopRegions(cfg, w, h) \o LeftRegions(cfg, w, h)
            \o BottomLeftRegions(cfg, w, h)

\* Vec::reverse
Reverse(s) == [i \in 1..Len(s) |-> s[Len(s) + 1 - i]]

---------------------------------------------------------------------------
(* precompute_region_indices *)

\* The offsets of one region, rows y1..y2-1 outermost, columns x1..x2-1.
RegionIndices(region, w) ==
    LET nrows == SatSub(region.y2, region.y1)
        ncols == SatSub(region.x2, region.x1)
    IN  [k \in 1..(nrows * ncols) |->
            (region.y1 + ((k - 1) \div ncols)) * w * 4
                + (region.x1 + ((k - 1) % ncols)) * 4]

precompute_region_indices(regions, w) ==
    [r \in 1..Len(regions) |-> RegionIndices(regions[r], w)]


---------------------------------------------------------------------------
(* Colour model *)

\* color_temperature_to_rgb_multipliers, in hundredths.  ln and powf have
\* no counterpart here: the function is tabulated at the temperatures the
\* configurations below use (the green factor is negative at 200 K).
color_temperature_to_rgb_multipliers(temp) ==
    CASE temp = 6600 -> <<100, 100, 99>>
      [] temp = 1000 -> <<100, 27, 0>>
      [] temp = 200  -> <<100, -36, 0>>

RECURSIVE Pow(_, _)
Pow(b, e) == IF e = 0 THEN 1 ELSE b * Pow(b, e - 1)

\* One channel of the correction: 255 * (avg / 255)^gamma, times the white
\* balance factor, times brightness / 100, capped at 255, then `as u8`
\* (truncation; a negative value becomes 0).  gamma is a whole number >= 1
\* here, and one factor of 255 is cancelled.
CorrectChannel(avg, gamma, mult, brightness) ==
    LET num == Pow(avg, gamma) * mult * brightness
        den == Pow(255, gamma - 1) * 100 * 100
    IN  IF num <= 0 THEN 0 ELSE Min(num \div den, 255)

---------------------------------------------------------------------------
(* Frame reducer: the closure given to par_iter().map *)

\* *ptr.add(o): a byte of the frame, or, past its end, whatever memory holds
\* there (oob maps the out-of-range addresses this task reads).
ReadByte(frm, oob, o) == IF o < Len(frm) THEN frm[o + 1] ELSE oob[o]

RECURSIVE SumChannel(_, _, _, _, _)
SumChannel(indices, k, c, frm, oob) ==
    IF k = 0 THEN 0
    ELSE SumChannel(indices, k - 1, c, frm, oob) + ReadByte(frm, oob, indices[k] + c)

\* Bytes are B, G, R, A: red is at +2, green at +1, blue at +0.
ReduceRegion(indices, frm, oob, cfg) ==
    LET count == Len(indices)
        mult  == color_temperature_to_rgb_multipliers(cfg.white_balance_temperature)
        avg(c) == (SumChannel(indices, count, c, frm, oob) \div count) % 256
    IN  IF count = 0 THEN <<0, 0, 0>>
        ELSE <<CorrectChannel(avg(2), cfg.gamma, mult[1], cfg.brightness),
               CorrectChannel(avg(1), cfg.gamma, mult[2], cfg.brightness),
               CorrectChannel(avg(0), cfg.gamma, mult[3], cfg.brightness)>>

\* The addresses a task reads that lie past the end of the frame buffer.
OutOfRange(indices, frm) ==
    {a \in {indices[k] + c : k \in 1..Len(indices), c \in 0..2} : a >= Len(frm)}

---------------------------------------------------------------------------
(* Adalight packet *)

RECURSIVE Xor(_, _)
Xor(a, b) ==
    IF a = 0 /\ b = 0 THEN 0
    ELSE ((a + b) % 2) + 2 * Xor(a \div 2, b \div 2)

RECURSIVE Flatten(_, _)
Flatten(cols, k) ==
    IF k = 0 THEN <<>>
    ELSE Flatten(cols, k - 1) \o <<cols[k][1], cols[k][2], cols[k][3]>>

\* Variant: the buffer is not cleared before it is refilled.
NotCleared(buf) == buf

\* msg_buffer.clear()
Cleared(buf) == <<>>

\* Lines 291-302: clear, "Ada", hi, lo, chk, then R, G, B of every triple.
EncodePacket(buf, cols) ==
    LET n   == Len(cols) * 3
        hi  == (n \div 256) % 256
        lo  == n % 256
        chk == Xor(Xor(hi, lo), 85)
    IN  Cleared(buf) \o <<65, 100, 97>> \o <<hi, lo, chk>> \o Flatten(cols, Len(cols))

---------------------------------------------------------------------------
(* More bounds *)

MaxTime == 8        \* the clock stops advancing here
MaxJitter == 1      \* thread::sleep may oversleep by up to this much
MaxWork == 2        \* time a cycle's processing and serial write may take
MaxFrameKind == 1   \* frame contents 0..MaxFrameKind (0 is all black)
MaxStrip == 90      \* longest strip of the packet-encoding specification

\* The values memory past the frame buffer may hold.
OobBytes == {0, 255}

\* A captured frame of w x h BGRA pixels.
FrameOf(kind, w, h) == [o \in 1..(w * h * 4) |-> (kind * (o * 53 + 11)) % 256]

---------------------------------------------------------------------------
(* Configurations *)

GeomConfigs ==
    [top_led_count : 0..MaxLed, left_led_count : 0..MaxLed,
     right_led_count : 0..MaxLed, bottom_left_led_count : 0..MaxLed,
     bottom_right_led_count : 0..MaxLed, offset : Percents,
     pixel_thickness : Percents, invert_direction : BOOLEAN,
     fps : {250}, brightness : {100}, white_balance_temperature : {6600},
     gamma : {1}]

\* The end-to-end scenario: 10 top, 5 + 5 bottom LEDs on a 100 x 50 screen.
ScenarioConfig ==
    [top_led_count |-> 10, left_led_count |-> 0, right_led_count |-> 0,
     bottom_left_led_count |-> 5, bottom_right_led_count |-> 5, offset |-> 0,
     pixel_thickness |-> 2, invert_direction |-> FALSE,
     fps |-> 250, brightness |-> 100, white_balance_temperature |-> 6600,
     gamma |-> 1]

Cfg(t, l, r, bl, br, off, pt, inv, fps, bri, temp, gam) ==
    [top_led_count |-> t, left_led_count |-> l, right_led_count |-> r,
     bottom_left_led_count |-> bl, bottom_right_led_count |-> br,
     offset |-> off, pixel_thickness |-> pt, invert_direction |-> inv,
     fps |-> fps, brightness |-> bri, white_balance_temperature |-> temp,
     gamma |-> gam]

\* The set-ups the pacing loop is explored with: a landscape screen with all
\* five edges, the same strip inverted, a portrait screen with a full-height
\* band, and a configuration without bottom LEDs.
LoopSetups ==
    { [cfg |-> Cfg(1, 1, 1, 1, 1, 0, 50, FALSE, 250, 100, 6600, 1), w |-> 2, h |-> 2],
      [cfg |-> Cfg(1, 0, 1, 1, 1, 50, 50, TRUE, 500, 50, 1000, 2), w |-> 2, h |-> 2],
      [cfg |-> Cfg(0, 1, 0, 1, 0, 0, 100, FALSE, 500, 100, 200, 1), w |-> 1, h |-> 2],
      [cfg |-> Cfg(2, 1, 1, 0, 0, 0, 50, FALSE, 2000, 100, 6600, 1), w |-> 2, h |-> 1] }

\* A strip of n LEDs on a 2 x 2 screen.
StripConfig(n) ==
    IF n = 0 THEN Cfg(1, 0, 0, 0, 0, 0, 50, FALSE, 250, 100, 6600, 1)
    ELSE Cfg(n - 1, 0, 0, 1, 0, 0, 50, FALSE, 250, 100, 6600, 1)

---------------------------------------------------------------------------
(* Start-up of main: region generation, optional reversal, offset tables *)

LoopIdle ==
    /\ frame_duration = -1
    /\ now = 0
    /\ frame_start = -1
    /\ poll_result = "None"
    /\ polls = 0
    /\ frame = <<>>
    /\ done = {}
    /\ results = <<>>
    /\ colors = <<>>
    /\ msg_buffer = <<>>
    /\ attempts = 0
    /\ write_result = "None"
    /\ sleep_arg = -1

InitGeom ==
    /\ \/ /\ config \in GeomConfigs
          /\ width \in 1..MaxDim
          /\ height \in 1..MaxDim
       \/ /\ config = ScenarioConfig
          /\ width = 100
          /\ height = 50
    /\ led_regions = <<>>
    /\ precomputed_indices = <<>>
    /\ pc = "Start"
    /\ LoopIdle

Init ==
    /\ \E s \in LoopSetups :
          /\ config = s.cfg
          /\ width = s.w
          /\ height = s.h
    /\ led_regions = <<>>
    /\ precomputed_indices = <<>>
    /\ pc = "Start"
    /\ LoopIdle

CreateRegions ==
    /\ pc = "Start"
    /\ led_regions' = create_led_regions(config, width, height)
    /\ pc' = "Created"
    /\ UNCHANGED <<config, width, height, precomputed_indices, loop_vars>>

InvertDirection ==
    /\ pc = "Created"
    /\ led_regions' = IF config.invert_direction THEN Reverse(led_regions)
                                                 ELSE led_regions
    /\ pc' = "Ordered"
    /\ UNCHANGED <<config, width, height, precomputed_indices, loop_vars>>

Precompute ==
    /\ pc = "Ordered"
    /\ precomputed_indices' = precompute_region_indices(led_regions, width)
    /\ pc' = "Ready"
    /\ UNCHANGED <<config, width, height, led_regions, loop_vars>>

NextGeom == CreateRegions \/ InvertDirection \/ Precompute

SpecGeom == InitGeom /\ [][NextGeom]_vars

---------------------------------------------------------------------------
(* The pacing loop of main *)

\* thread::sleep(d): returns after at least d.
Sleep(d) ==
    \E j \in 0..MaxJitter :
        /\ now + d + j <= MaxTime
        /\ now' = now + d + j
        /\ sleep_arg' = d

\* Buffer allocation and frame_duration = 1000 / fps ms, then 'main_loop.
EnterLoop ==
    /\ pc = "Ready"
    /\ msg_buffer' = <<>>
    /\ frame_duration' = 1000 \div config.fps
    /\ pc' = "CycleStart"
    /\ UNCHANGED <<geom_vars, now, frame_start, poll_result, polls, frame, done,
                   results, colors, attempts, write_result, sleep_arg>>

\* Top of 'main_loop: frame_start = Instant::now().  The frame and the colours
\* of the previous iteration are gone.
StartCycle ==
    /\ pc = "CycleStart"
    /\ frame_start' = now
    /\ polls' = 0
    /\ attempts' = 0
    /\ frame' = <<>>
    /\ done' = {}
    /\ results' = <<>>
    /\ colors' = <<>>
    /\ pc' = "AwaitingFrame"
    /\ UNCHANGED <<geom_vars, frame_duration, now, poll_result, msg_buffer,
                   write_result, sleep_arg>>

\* capturer.frame() returns Ok(frame)
PollFrame ==
    /\ pc = "AwaitingFrame"
    /\ \E kind \in 0..MaxFrameKind : frame' = FrameOf(kind, width, height)
    /\ poll_result' = "Ok"
    /\ pc' = "Reducing"
    /\ UNCHANGED <<geom_vars, frame_duration, now, frame_start, polls, done,
                   results, colors, msg_buffer, attempts, write_result, sleep_arg>>

\* capturer.frame() returns WouldBlock: sleep 1 ms and poll again
PollWouldBlock ==
    /\ pc = "AwaitingFrame"
    /\ poll_result' = "WouldBlock"
    /\ polls' = polls + 1
    /\ Sleep(1)
    /\ pc' = "AwaitingFrame"
    /\ UNCHANGED <<geom_vars, frame_duration, frame_start, frame, done, results,
                   colors, msg_buffer, attempts, write_result>>

\* Variant: the capture error is propagated out of main.
PollErrorExits ==
    /\ pc = "AwaitingFrame"
    /\ poll_result' = "Err"
    /\ pc' = "Exited"
    /\ UNCHANGED <<geom_vars, frame_duration, now, frame_start, polls, frame, done,
                   results, colors, msg_buffer, attempts, write_result, sleep_arg>>

\* capturer.frame() returns another error: report, sleep a frame period,
\* continue 'main_loop
PollError ==
    /\ pc = "AwaitingFrame"
    /\ poll_result' = "Err"
    /\ Sleep(frame_duration)
    /\ pc' = "CycleStart"
    /\ UNCHANGED <<geom_vars, frame_duration, frame_start, polls, frame, done,
                   results, colors, msg_buffer, attempts, write_result>>

\* Variant: results are gathered in the order the tasks finish.
CompletionSlot(i, finished) == Cardinality(finished) + 1

\* The slot of the collected vector that the task of region i fills: the
\* indexed parallel iterator collects by position.
ResultSlot(i, finished) == i

StoreResult(i, v) ==
    LET slot == ResultSlot(i, done)
    IN  results' = [j \in DOMAIN results \cup {slot} |->
                        IF j = slot THEN v ELSE results[j]]

\* One task of par_iter().map(..): region i is reduced over the frame.  A
\* table with offsets past the buffer makes the unchecked reads undefined:
\* the task reads whatever is there, or the process dies.
ReduceTask(i) ==
    /\ pc = "Reducing"
    /\ i \in (1..Len(precomputed_indices)) \ done
    /\ LET indices == precomputed_indices[i]
           oor == OutOfRange(indices, frame)
       IN  \/ /\ oor = {}
              /\ StoreResult(i, ReduceRegion(indices, frame, <<>>, config))
              /\ done' = done \cup {i}
              /\ pc' = "Reducing"
           \/ /\ oor # {}
              /\ \E oob \in [oor -> OobBytes] :
                    StoreResult(i, ReduceRegion(indices, frame, oob, config))
              /\ done' = done \cup {i}
              /\ pc' = "Reducing"
           \/ /\ oor # {}
              /\ pc' = "Crashed"
              /\ UNCHANGED <<done, results>>
    /\ UNCHANGED <<geom_vars, frame_duration, now, frame_start, poll_result, polls,
                   frame, colors, msg_buffer, attempts, write_result, sleep_arg>>

\* collect(): returns once every task has finished
Collect ==
    /\ pc = "Reducing"
    /\ done = 1..Len(precomputed_indices)
    /\ colors' = [i \in 1..Len(precomputed_indices) |-> results[i]]
    /\ pc' = "Encoding"
    /\ UNCHANGED <<geom_vars, frame_duration, now, frame_start, poll_result, polls,
                   frame, done, results, msg_buffer, attempts, write_result,
                   sleep_arg>>

Encode ==
    /\ pc = "Encoding"
    /\ msg_buffer' = EncodePacket(msg_buffer, colors)
    /\ pc' = "Transmitting"
    /\ UNCHANGED <<geom_vars, frame_duration, now, frame_start, poll_result, polls,
                   frame, done, results, colors, attempts, write_result, sleep_arg>>

\* Variant: a failed write is attempted again.
RetryFailedWrite(ok) == IF ok THEN "Sleeping" ELSE "Transmitting"

\* Where the control thread goes after port.write_all returned.
AfterWrite(ok) == "Sleeping"

\* port.write_all(&msg_buffer): Ok, or Err which is only reported.  The time
\* the cycle's processing and the write take passes here.
WriteAll ==
    /\ pc = "Transmitting"
    /\ \E ok \in BOOLEAN, d \in 0..MaxWork :
          /\ now + d <= MaxTime
          /\ now' = now + d
          /\ write_result' = IF ok THEN "Ok" ELSE "Err"
          /\ pc' = AfterWrite(ok)
    /\ attempts' = attempts + 1
    /\ UNCHANGED <<geom_vars, frame_duration, frame_start, poll_result, polls,
                   frame, done, results, colors, msg_buffer, sleep_arg>>

\* Variant: the whole frame period is slept, whatever the cycle took.
PaceSleepFullPeriod ==
    /\ pc = "Sleeping"
    /\ Sleep(frame_duration)
    /\ pc' = "CycleStart"
    /\ UNCHANGED <<geom_vars, frame_duration, frame_start, poll_result, polls,
                   frame, done, results, colors, msg_buffer, attempts,
                   write_result>>

\* elapsed = frame_start.elapsed(); sleep the rest of the frame period, if any
PaceSleep ==
    /\ pc = "Sleeping"
    /\ LET elapsed == now - frame_start
       IN  IF elapsed < frame_duration
           THEN Sleep(frame_duration - elapsed)
           ELSE UNCHANGED <<now, sleep_arg>>
    /\ pc' = "CycleStart"
    /\ UNCHANGED <<geom_vars, frame_duration, frame_start, poll_result, polls,
                   frame, done, results, colors, msg_buffer, attempts,
                   write_result>>

NextLoop ==
    \/ EnterLoop
    \/ StartCycle
    \/ PollFrame
    \/ PollWouldBlock
    \/ PollError
    \/ \E i \in 1..Len(precomputed_indices) : ReduceTask(i)
    \/ Collect
    \/ Encode
    \/ WriteAll
    \/ PaceSleep

Next == NextGeom \/ NextLoop

Spec == Init /\ [][Next]_vars

---------------------------------------------------------------------------
(* Packet encoding on strips of up to MaxStrip LEDs: the state of a cycle   *)
(* right after collect(), with the packet of an earlier cycle (or nothing,  *)
(* in the first cycle) still in msg_buffer.                                 *)

AllColors(tables, frm, cfg) ==
    [i \in 1..Len(tables) |-> ReduceRegion(tables[i], frm, <<>>, cfg)]

InitEncode ==
    \E n \in 0..MaxStrip, kind \in 0..MaxFrameKind :
        LET cfg    == StripConfig(n)
            regs   == create_led_regions(cfg, 2, 2)
            tables == precompute_region_indices(regs, 2)
            cols   == AllColors(tables, FrameOf(kind, 2, 2), cfg)
        IN  /\ config = cfg
            /\ width = 2
            /\ height = 2
            /\ led_regions = regs
            /\ precomputed_indices = tables
            /\ pc = "Encoding"
            /\ frame_duration = 1000 \div cfg.fps
            /\ now = 0
            /\ frame_start = 0
            /\ poll_result = "Ok"
            /\ polls = 0
            /\ frame = FrameOf(kind, 2, 2)
            /\ done = 1..n
            /\ results = cols
            /\ colors = cols
            /\ \/ /\ msg_buffer = <<>>
                  /\ write_result = "None"
                  /\ sleep_arg = -1
               \/ /\ \E prev \in 0..MaxFrameKind :
                        msg_buffer = EncodePacket(<<>>, AllColors(tables, FrameOf(prev, 2, 2), cfg))
                  /\ write_result \in {"Ok", "Err"}
                  /\ sleep_arg = frame_duration
            /\ attempts = 0

NextEncode == Encode \/ WriteAll

SpecEncode == InitEncode /\ [][NextEncode]_vars

---------------------------------------------------------------------------
(* Properties of the region builder and the offset tables (SpecGeom) *)

Built == pc \in {"Created", "Ordered", "Ready"}

InScreen(r) ==
    /\ 0 <= r.x1 /\ r.x1 <= r.x2 /\ r.x2 <= width
    /\ 0 <= r.y1 /\ r.y1 <= r.y2 /\ r.y2 <= height

\* C1: every region returned by create_led_regions lies inside the screen:
\* 0 <= x1 <= x2 <= width and 0 <= y1 <= y2 <= height, for all five edge
\* groups.  (Fails: x2 of a left-edge region is the band thickness
\* height * pixel_thickness / 100, which is not capped at width.)
C1_RegionsInsideScreen ==
    Built => \A i \in 1..Len(led_regions) : InScreen(led_regions[i])

\* C2: every stored offset o satisfies o + 2 < width * height * 4, so the
\* reducer's reads at o, o + 1, o + 2 stay inside the frame buffer.  (Fails
\* for the left-edge regions of C1 that are wider than the screen.)
C2_OffsetsInsideFrame ==
    pc = "Ready" =>
        \A r \in 1..Len(precomputed_indices) :
            \A k \in 1..Len(precomputed_indices[r]) :
                precomputed_indices[r][k] + 2 < width * height * 4

LedCountSum ==
    config.top_led_count + config.left_led_count + config.right_led_count
        + config.bottom_left_led_count + config.bottom_right_led_count

\* C4: the list has top + left + right + bottom_left + bottom_right entries
\* when bottom_left + bottom_right > 0, and is empty when both bottom counts
\* are 0, whatever the other counts are.
C4_RegionCount ==
    Built =>
        Len(led_regions) =
            IF config.bottom_left_led_count + config.bottom_right_led_count > 0
            THEN LedCountSum ELSE 0

C4_Witness ==
    /\ pc = "Created"
    /\ config.bottom_left_led_count + config.bottom_right_led_count = 0
    /\ config.top_led_count > 0
    /\ config.left_led_count > 0
    /\ config.right_led_count > 0
    /\ led_regions = <<>>

\* The list as create_led_regions returned it, not reversed.
Unreversed == pc = "Created" \/ (pc \in {"Ordered", "Ready"} /\ ~config.invert_direction)

Thickness == (height * config.pixel_thickness) \div 100

InBottomBand(r) == r.y1 = height - Thickness /\ r.y2 = height

\* Consecutive regions lo+1..lo+n walk an axis: the `from` coordinate of the
\* first is `start`, and each region begins where its predecessor ended.
Chain(lo, n, start, From(_), To(_)) ==
    /\ n > 0 => From(led_regions[lo + 1]) = start
    /\ \A i \in 1..n : From(led_regions[lo + i]) <= To(led_regions[lo + i])
    /\ \A i \in 1..(n - 1) : To(led_regions[lo + i]) = From(led_regions[lo + i + 1])

GetX1(r) == r.x1
GetX2(r) == r.x2
\* walking upwards or leftwards: a region starts at its larger coordinate
NegY2(r) == 0 - r.y2
NegY1(r) == 0 - r.y1
NegX2(r) == 0 - r.x2
NegX1(r) == 0 - r.x1
GetY1(r) == r.y1
GetY2(r) == r.y2

\* C5: with a non-zero bottom count and no inversion the list is, in order:
\* the bottom_right regions left to right in the bottom band from
\* x = leftGroupWidth + offsetPixels, the right-edge regions bottom to top,
\* the top-edge regions right to left, the left-edge regions top to bottom,
\* the bottom_left regions left to right in the bottom band from x = 0.
C5_TraversalOrder ==
    (Unreversed /\ config.bottom_left_led_count + config.bottom_right_led_count > 0) =>
        LET BR == config.bottom_right_led_count
            R  == config.right_led_count
            T  == config.top_led_count
            L  == config.left_led_count
            BL == config.bottom_left_led_count
            offsetPixels == (width * config.offset) \div 100
            leftGroupWidth == RoundDiv(BL * (width - offsetPixels), BL + BR)
        IN  /\ Len(led_regions) = BR + R + T + L + BL
            /\ \A i \in 1..BR : InBottomBand(led_regions[i])
            /\ Chain(0, BR, leftGroupWidth + offsetPixels, GetX1, GetX2)
            /\ \A i \in 1..R :
                  /\ led_regions[BR + i].x2 = width
                  /\ led_regions[BR + i].x1 = SatSub(width, Thickness)
            /\ Chain(BR, R, 0 - height, NegY2, NegY1)
            /\ R > 0 => led_regions[BR + R].y1 = 0
            /\ \A i \in 1..T :
                  /\ led_regions[BR + R + i].y1 = 0
                  /\ led_regions[BR + R + i].y2 = Thickness
            /\ Chain(BR + R, T, 0 - width, NegX2, NegX1)
            /\ T > 0 => led_regions[BR + R + T].x1 = 0
            /\ \A i \in 1..L :
                  /\ led_regions[BR + R + T + i].x1 = 0
                  /\ led_regions[BR + R + T + i].x2 = Thickness
            /\ Chain(BR + R + T, L, 0, GetY1, GetY2)
            /\ L > 0 => led_regions[BR + R + T + L].y2 = height
            /\ \A i \in 1..BL : InBottomBand(led_regions[BR + R + T + L + i])
            /\ Chain(BR + R + T + L, BL, 0, GetX1, GetX2)

C5_Witness ==
    /\ pc = "Created"
    /\ config.bottom_right_led_count = 2
    /\ config.right_led_count = 2
    /\ config.top_led_count = 2
    /\ config.left_led_count = 2
    /\ config.bottom_left_led_count = 1
    /\ config.offset = 0
    /\ config.pixel_thickness = 50
    /\ width = 3
    /\ height = 2
    /\ Len(led_regions) = 9
    /\ led_regions[1].x1 = 1
    /\ led_regions[9].x1 = 0

IsScenario == config = ScenarioConfig /\ width = 100 /\ height = 50 /\ pc = "Ready"

\* C6 as stated: in the scenario the list has 20 entries, the first 5 cover
\* x in [0,50) in the bottom band, the next 5 cover x in [50,100) in the
\* bottom band, the last 10 cover the top band from right to left.
C6_ScenarioAsStated ==
    IsScenario =>
        /\ Len(led_regions) = 20
        /\ \A i \in 1..5 :
              /\ InBottomBand(led_regions[i])
              /\ 0 <= led_regions[i].x1 /\ led_regions[i].x2 <= 50
        /\ \A i \in 6..10 :
              /\ InBottomBand(led_regions[i])
              /\ 50 <= led_regions[i].x1 /\ led_regions[i].x2 <= 100
        /\ \A i \in 11..20 :
              /\ led_regions[i].y1 = 0 /\ led_regions[i].y2 = Thickness
        /\ \A i \in 11..19 : led_regions[i].x1 = led_regions[i + 1].x2

\* C6 amended: the list has 20 entries; indices 0-4 are the bottom_right
\* group covering x in [50,100) in the bottom band, indices 5-14 cover the
\* top band from right to left, and indices 15-19 are the bottom_left group
\* covering x in [0,50) in the bottom band.
C6_Scenario ==
    IsScenario =>
        /\ Len(led_regions) = 20
        /\ \A i \in 1..5 :
              led_regions[i] = [x1 |-> 50 + 10 * (i - 1), y1 |-> 49,
                                x2 |-> 50 + 10 * i, y2 |-> 50]
        /\ \A i \in 6..15 :
              led_regions[i] = [x1 |-> 100 - 10 * (i - 5), y1 |-> 0,
                                x2 |-> 100 - 10 * (i - 6), y2 |-> 1]
        /\ \A i \in 16..20 :
              led_regions[i] = [x1 |-> 10 * (i - 16), y1 |-> 49,
                                x2 |-> 10 * (i - 15), y2 |-> 50]

C6_Witness == IsScenario /\ Len(led_regions) = 20 /\ Len(precomputed_indices) = 20

---------------------------------------------------------------------------
(* Properties of the packet (SpecEncode) *)

Bit(v, b) == (v \div Pow(2, b)) % 2

\* C3: the bytes handed to the serial write for N colour triples are exactly
\* 6 + 3N long, with nothing of an earlier cycle: "Ada", the high and low
\* byte of 3N, their XOR with 0x55, then the N triples as R, G, B in strip
\* order; N is the number of regions after any inversion.
C3_PacketLayout ==
    pc = "Transmitting" =>
        LET N == Len(led_regions)
        IN  /\ Len(colors) = N
            /\ Len(msg_buffer) = 6 + 3 * N
            /\ msg_buffer[1] = 65 /\ msg_buffer[2] = 100 /\ msg_buffer[3] = 97
            /\ msg_buffer[4] * 256 + msg_buffer[5] = 3 * N
            /\ msg_buffer[4] \in 0..255 /\ msg_buffer[5] \in 0..255
            /\ msg_buffer[6] \in 0..255
            /\ \A b \in 0..7 :
                  Bit(msg_buffer[6], b) =
                      (Bit(msg_buffer[4], b) + Bit(msg_buffer[5], b) + Bit(85, b)) % 2
            /\ \A i \in 1..N :
                  /\ msg_buffer[6 + 3 * (i - 1) + 1] = colors[i][1]
                  /\ msg_buffer[6 + 3 * (i - 1) + 2] = colors[i][2]
                  /\ msg_buffer[6 + 3 * (i - 1) + 3] = colors[i][3]

C3_Witness ==
    /\ pc = "Transmitting"
    /\ write_result = "Err"
    /\ Len(colors) >= 86
    /\ msg_buffer[4] = 1
    /\ \E i \in 1..Len(colors) : colors[i][1] > 0

---------------------------------------------------------------------------
(* Properties of the pacing loop (Spec) *)

NumRegions == Len(precomputed_indices)

\* C7: a frame poll that fails with anything but not-ready aborts the cycle:
\* nothing is reduced, encoded or written, the loop sleeps one full frame
\* period and starts a new cycle at AwaitingFrame with a fresh start time;
\* the process goes on, after any earlier cycles and failures.
C7_CaptureErrorAbortsCycle ==
    [][ /\ (pc = "AwaitingFrame" /\ poll_result' = "Err") =>
              /\ pc' = "CycleStart"
              /\ sleep_arg' = frame_duration
              /\ now' >= now + frame_duration
              /\ done' = {} /\ colors' = <<>> /\ attempts' = 0
              /\ UNCHANGED <<msg_buffer, write_result, results>>
        /\ (pc = "CycleStart" /\ poll_result = "Err") =>
              /\ pc' = "AwaitingFrame"
              /\ frame_start' = now
              /\ now' = now
      ]_vars

C7_Witness ==
    /\ pc = "AwaitingFrame"
    /\ poll_result = "Err"
    /\ write_result = "Err"
    /\ frame_duration > 0
    /\ sleep_arg = frame_duration
    /\ frame_start >= 2 * frame_duration
    /\ frame_start = now

\* C8: a failed serial write is not fatal and not retried: a cycle that got
\* a frame makes exactly one write attempt and then goes to Sleeping and on
\* to the next AwaitingFrame, whether the write succeeded or not; the failed
\* packet is not kept for a later cycle.
C8_WriteOnceNoRetry ==
    [][ /\ pc = "Transmitting" =>
              /\ pc' = "Sleeping"
              /\ attempts = 0 /\ attempts' = 1
              /\ write_result' \in {"Ok", "Err"}
              /\ UNCHANGED <<msg_buffer, colors>>
        /\ pc = "Sleeping" => (pc' = "CycleStart" /\ attempts' = 1)
        /\ pc = "CycleStart" => (pc' = "AwaitingFrame" /\ attempts' = 0)
        /\ pc' = "Transmitting" =>
              /\ attempts' = 0
              /\ Len(msg_buffer') = 6 + 3 * Len(colors')
      ]_vars

C8_Witness ==
    /\ pc = "Transmitting"
    /\ write_result = "Err"
    /\ attempts = 0
    /\ NumRegions > 0

\* What the task of region i may produce over the current frame (one value,
\* unless its table reaches past the buffer).
Reductions(i) ==
    LET indices == precomputed_indices[i]
    IN  {ReduceRegion(indices, frame, oob, config) :
            oob \in [OutOfRange(indices, frame) -> OobBytes]}

\* C9: the i-th collected triple, and so the i-th triple of the payload, is
\* the reduction of the i-th region's table over this cycle's frame,
\* whatever order the tasks finish in; encoding starts only when all regions
\* are reduced; no task touches the packet buffer or the port.
C9_PositionalCollect ==
    [][ /\ pc' \in {"Encoding", "Transmitting", "Sleeping"} =>
              /\ done' = 1..NumRegions
              /\ Len(colors') = NumRegions
              /\ \A i \in 1..NumRegions : colors'[i] \in Reductions(i)'
        /\ pc' = "Transmitting" =>
              \A i \in 1..NumRegions :
                  <<msg_buffer'[3 * i + 4], msg_buffer'[3 * i + 5], msg_buffer'[3 * i + 6]>>
                      = colors'[i]
        /\ pc' = "Encoding" => (pc = "Reducing" /\ done = 1..NumRegions)
        /\ pc = "Reducing" => UNCHANGED <<msg_buffer, attempts, write_result>>
      ]_vars

C9_Witness ==
    /\ pc = "Transmitting"
    /\ NumRegions = 5
    /\ colors[1] # colors[2]
    /\ colors[2] # colors[3]
    /\ colors[1] # colors[3]
    /\ write_result # "None"

\* C10: not-ready results are re-polled after a 1 ms sleep without touching
\* the cycle start; at the end of a cycle with a frame the elapsed time is
\* taken from that start, the loop sleeps exactly the frame period minus the
\* elapsed time if that is positive and not at all otherwise; two cycle
\* starts in a row are at least a frame period apart, and after an overrun
\* the next cycle starts at once.
C10_Pacing ==
    [][ /\ (pc = "AwaitingFrame" /\ poll_result' = "WouldBlock") =>
              /\ pc' = "AwaitingFrame"
              /\ frame_start' = frame_start
              /\ sleep_arg' = 1
              /\ now' >= now + 1
        /\ pc = "Sleeping" =>
              /\ pc' = "CycleStart"
              /\ frame_start' = frame_start
              /\ IF now - frame_start < frame_duration
                 THEN /\ sleep_arg' = frame_duration - (now - frame_start)
                      /\ now' >= frame_start + frame_duration
                 ELSE /\ now' = now
                      /\ sleep_arg' = sleep_arg
        /\ pc = "CycleStart" =>
              /\ pc' = "AwaitingFrame"
              /\ frame_start' = now
              /\ now' = now
              /\ frame_start >= 0 => frame_start' - frame_start >= frame_duration
      ]_vars

\* Two not-ready polls of 1 ms each, a frame, and the remaining 2 ms of the
\* 4 ms period slept, in a cycle that is not the first.
C10_Witness ==
    /\ pc = "CycleStart"
    /\ poll_result = "Ok"
    /\ polls = 2
    /\ attempts = 1
    /\ frame_duration = 4
    /\ sleep_arg = 2
    /\ frame_start >= 4
    /\ now = frame_start + 4

====
